---------------------------- MODULE Spec2Model ----------------------------
(***************************************************************************)
(* finreport: the completion client (core/llm/llm.py and its packaged copy *)
(* src/aifinreport/llm/client.py), the map / reduce / final-synthesis      *)
(* stages (core/summarize/map_reduce.py and its packaged copy              *)
(* src/aifinreport/analysis/summarization.py), the article selector        *)
(* (core/selectors/select_finance_yahoo.py and its packaged copy           *)
(* src/aifinreport/analysis/selection.py) and run() of                     *)
(* scripts/make_ticker_period_summary.py.                                  *)
(*                                                                         *)
(* Five specifications:                                                    *)
(*   Spec        one complete() request, one backend call per step;        *)
(*   SpecLive    Spec with the request running on (weak fairness);         *)
(*   SpecStages  one call of a stage function on inputs drawn at Init;     *)
(*   SpecSelect  a selector function called twice on inputs drawn at Init, *)
(*               the MMR loop one iteration per step;                      *)
(*   SpecRun     one run(), one article / stage per step.                  *)
(***************************************************************************)
EXTENDS Integers, Sequences, FiniteSets, TLC

VARIABLES
    cfg,        \* module-level configuration read at import time
    pc,         \* where complete() is: "start", "mistral", "openai", "done"
    slot,       \* Mistral model being tried: 0 = primary, i = i-th fallback
    attempt,    \* loop variable of _complete_mistral
    calls,      \* backend calls issued so far, each with its outcome
    sleeps,     \* arguments of time.sleep so far
    result,     \* how complete() ended
    overload,   \* the capacity error the Mistral/OpenAI service reports while overloaded
    stage,      \* SpecStages: the stage function under call and its inputs
    stPc,       \* SpecStages: "call" before the function ran, "ret" after
    stCalls,    \* SpecStages: the outcomes of the complete() calls it issued
    stRet,      \* SpecStages: what the function returned or raised
    sel,        \* SpecSelect: the selector function under call and its inputs
    selPc,      \* SpecSelect: per run, "call", "loop" (inside the MMR loop), "ret"
    articles,   \* SpecSelect: per run, the scored list apply_mmr_diversity works on
    selected_idx,   \* SpecSelect: per run, selected_idx of apply_mmr_diversity
    remaining_idx,  \* SpecSelect: per run, remaining_idx of apply_mmr_diversity
    selRet,     \* SpecSelect: per run, what the function returned or raised
    run         \* SpecRun: the state of run() of make_ticker_period_summary.py

clientVars == <<cfg, pc, slot, attempt, calls, sleeps, result, overload>>
stageVars == <<stage, stPc, stCalls, stRet>>
selVars == <<sel, selPc, articles, selected_idx, remaining_idx, selRet>>
vars == <<cfg, pc, slot, attempt, calls, sleeps, result, overload, stage, stPc, stCalls, stRet,
          sel, selPc, articles, selected_idx, remaining_idx, selRet, run>>

(***************************************************************************)
(* Bounds of the model                                                     *)
(***************************************************************************)
\* number of entries of LLM_MISTRAL_FALLBACKS (the default list has 2)
MaxFallbacks == 2
\* distinct response texts a backend may return
MaxTexts == 2
\* paragraphs of an article body
MaxParas == 2
\* articles whose bullets the Reduce stage is given
MaxArticles == 2
\* a backend response has 0..MaxSmall lines, or up to MaxOver lines more than
\* a stage's cap
MaxSmall == 3
MaxOver == 1
\* target length of the final summary, and length of the backend's answer
MaxTarget == 3
MaxFinalChars == 5
\* body character counts run up to MaxBodyChars
MaxBodyChars == 6001
\* rows the query returns; max_articles runs up to it
MaxRows == 3

(***************************************************************************)
(* The completion client                                                   *)
(***************************************************************************)
\* default of max_retries
MaxRetries == 4
\* default of base_sleep
BaseSleep == 1

Impls == {"core", "pkg"}
Providers == {"mistral", "openai", "other"}

\* Kinds of exception a backend call can end with.  "rate_limit_429" and
\* "capacity" are SDK errors whose message holds "429" / "capacity";
\* "sdk_other" is any other SDK error; "not_sdk" is an exception that is not
\* an SDKError (network failure, bad response shape).
ErrKinds == {"rate_limit_429", "capacity", "sdk_other", "not_sdk"}
TransientKinds == {"rate_limit_429", "capacity"}

TextIds == {"t1", "t2", "t3"}

\* What one backend call can do: return a text, return an empty text, return
\* no text at all (None), or raise.  id is the position of the call in
\* `calls`.  A request sees one kind of capacity error, `ov`.
Outcomes(n, ov) ==
    [kind : {"text"}, val : {t \in TextIds : t = "t1" \/ (t = "t2" /\ MaxTexts >= 2) \/ (t = "t3" /\ MaxTexts >= 3)}, id : {n}]
    \cup [kind : {"empty", "null"}, val : {""}, id : {n}]
    \cup [kind : {"error"}, val : {ov} \cup (ErrKinds \ TransientKinds), id : {n}]

NoResult == [kind |-> "none", val |-> "", id |-> 0]
Return(o) == [kind |-> "return", val |-> o.val, id |-> o.id]
Raise(o) == [kind |-> "raise", val |-> o.val, id |-> o.id]
\* an exception complete() itself raises (no backend call behind it)
RaiseOwn(name) == [kind |-> "raise", val |-> name, id |-> 0]

\* `except MistralSDKError`
IsSdkError(o) == o.kind = "error" /\ o.val # "not_sdk"

\* faulty variant: every SDK error is taken for a capacity error
IsCapacityError_Any(o) == TRUE
\* `"429" in msg or "capacity" in msg.lower()`
IsCapacityError(o) == o.val \in TransientKinds

\* faulty variant: the test is inverted, `if not out`
Truthy_Inverted(o) == o.kind # "text"
\* `if out:` on what a backend call returned
Truthy(o) == o.kind = "text"

\* faulty variant: one attempt too many
LoopContinues_OffByOne(a) == a + 1 <= MaxRetries
\* `for attempt in range(max_retries)`: is there an iteration after attempt a
LoopContinues(a) == a + 1 < MaxRetries

\* faulty variant: the delay grows by base_sleep each time
Backoff_Linear(a) == BaseSleep * (a + 1)
\* the argument of time.sleep: base_sleep * (2 ** attempt)
Backoff(a) == BaseSleep * (2 ^ a)

\* faulty variant: the fallback loop is skipped
AfterMistralNone_NoFallbacks(s) ==
    IF cfg.provider = "openai" THEN [pc |-> "done", slot |-> s, res |-> RaiseOwn("RuntimeError_openai_failed")]
    ELSE [pc |-> "openai", slot |-> s, res |-> NoResult]
\* faulty variant: the fallback loop runs one model past the end of the list
AfterMistralNone_OneMore(s) ==
    IF cfg.provider = "openai"
    THEN [pc |-> "done", slot |-> s, res |-> RaiseOwn("RuntimeError_openai_failed")]
    ELSE IF cfg.impl = "pkg" /\ s = 0
    THEN [pc |-> "done", slot |-> s, res |-> RaiseOwn("NameError_MISTRAL_FALLBACKS")]
    ELSE IF s <= cfg.nFallbacks
    THEN [pc |-> "mistral", slot |-> s + 1, res |-> NoResult]
    ELSE [pc |-> "openai", slot |-> s, res |-> NoResult]
\* complete(): what follows a _complete_mistral(prompt, model s) that
\* returned None or an empty text
AfterMistralNone(s) ==
    IF cfg.provider = "openai"
    THEN [pc |-> "done", slot |-> s, res |-> RaiseOwn("RuntimeError_openai_failed")]
    ELSE IF cfg.impl = "pkg" /\ s = 0
    THEN \* client.py imports LLM_MISTRAL_FALLBACKS and reads MISTRAL_FALLBACKS
         [pc |-> "done", slot |-> s, res |-> RaiseOwn("NameError_MISTRAL_FALLBACKS")]
    ELSE IF s < cfg.nFallbacks
    THEN [pc |-> "mistral", slot |-> s + 1, res |-> NoResult]
    ELSE [pc |-> "openai", slot |-> s, res |-> NoResult]

\* complete(): what follows a _complete_openai(prompt) that returned None or
\* an empty text
AfterOpenAINone ==
    IF cfg.provider = "openai"
    THEN [pc |-> "mistral", slot |-> 0, res |-> NoResult]
    ELSE [pc |-> "done", slot |-> slot, res |-> RaiseOwn("RuntimeError_all_backends_failed")]

Configs ==
    [impl : Impls, provider : Providers, mistralOK : BOOLEAN, openaiOK : BOOLEAN,
     nFallbacks : 0..MaxFallbacks]

StagesIdle ==
    /\ stage = [fn |-> "none"]
    /\ stPc = "idle"
    /\ stCalls = <<>>
    /\ stRet = [kind |-> "none", val |-> <<>>]

\* a selector call is made twice on the same input
Runs == {1, 2}

SelectIdle ==
    /\ sel = [fn |-> "none"]
    /\ selPc = [r \in Runs |-> "idle"]
    /\ articles = [r \in Runs |-> <<>>]
    /\ selected_idx = [r \in Runs |-> <<>>]
    /\ remaining_idx = [r \in Runs |-> {}]
    /\ selRet = [r \in Runs |-> [kind |-> "none", val |-> <<>>, err |-> "none"]]

RunIdle == run = [pc |-> "idle"]

Init ==
    /\ cfg \in Configs
    /\ pc = "start"
    /\ slot = 0
    /\ attempt = 0
    /\ calls = <<>>
    /\ sleeps = <<>>
    /\ result = NoResult
    /\ overload \in TransientKinds
    /\ StagesIdle
    /\ SelectIdle
    /\ RunIdle

\* complete(): the branch on the provider
Dispatch ==
    /\ pc = "start"
    /\ pc' = (IF cfg.provider = "mistral" THEN "mistral"
              ELSE IF cfg.provider = "openai" THEN "openai" ELSE "done")
    /\ result' = (IF cfg.provider \in {"mistral", "openai"} THEN NoResult
                  ELSE RaiseOwn("ValueError_unknown_provider"))
    /\ UNCHANGED <<cfg, slot, attempt, calls, sleeps, overload>>
    /\ UNCHANGED stageVars
    /\ UNCHANGED <<selVars, run>>

Goto(nx) ==
    /\ pc' = nx.pc
    /\ slot' = nx.slot
    /\ result' = nx.res
    /\ attempt' = 0

\* _complete_mistral: `if not (Mistral and MISTRAL_KEY): return None`
MistralUnavailable ==
    /\ pc = "mistral"
    /\ ~cfg.mistralOK
    /\ Goto(AfterMistralNone(slot))
    /\ UNCHANGED <<cfg, calls, sleeps, overload>>
    /\ UNCHANGED stageVars
    /\ UNCHANGED <<selVars, run>>

\* _complete_mistral: one iteration of the retry loop, and what complete()
\* does when the loop ends with it
MistralCall ==
    /\ pc = "mistral"
    /\ cfg.mistralOK
    /\ \E o \in Outcomes(Len(calls) + 1, overload) :
        /\ calls' = Append(calls, [backend |-> "mistral", model |-> slot, attempt |-> attempt, out |-> o])
        /\ IF o.kind # "error"
           THEN /\ sleeps' = sleeps
                /\ IF Truthy(o)
                   THEN /\ pc' = "done"
                        /\ result' = Return(o)
                        /\ UNCHANGED <<slot, attempt>>
                   ELSE Goto(AfterMistralNone(slot))
           ELSE IF IsSdkError(o) /\ IsCapacityError(o)
           THEN /\ sleeps' = Append(sleeps, Backoff(attempt))
                /\ IF LoopContinues(attempt)
                   THEN /\ attempt' = attempt + 1
                        /\ UNCHANGED <<pc, slot, result>>
                   ELSE Goto(AfterMistralNone(slot))
           ELSE /\ sleeps' = sleeps
                /\ pc' = "done"
                /\ result' = Raise(o)
                /\ UNCHANGED <<slot, attempt>>
    /\ UNCHANGED <<cfg, overload>>
    /\ UNCHANGED stageVars
    /\ UNCHANGED <<selVars, run>>

\* _complete_openai: `if not (OPENAI_KEY and OpenAIClient): return None`
OpenAIUnavailable ==
    /\ pc = "openai"
    /\ ~cfg.openaiOK
    /\ Goto(AfterOpenAINone)
    /\ UNCHANGED <<cfg, calls, sleeps, overload>>
    /\ UNCHANGED stageVars
    /\ UNCHANGED <<selVars, run>>

\* client.py: _complete_openai reads OPENAI_MODEL, which the module never
\* defines; the name is evaluated before the request is sent
OpenAINameError ==
    /\ pc = "openai"
    /\ cfg.openaiOK
    /\ cfg.impl = "pkg"
    /\ pc' = "done"
    /\ result' = RaiseOwn("NameError_OPENAI_MODEL")
    /\ UNCHANGED <<cfg, slot, attempt, calls, sleeps, overload>>
    /\ UNCHANGED stageVars
    /\ UNCHANGED <<selVars, run>>

\* _complete_openai: the one request; no exception is caught
OpenAICall ==
    /\ pc = "openai"
    /\ cfg.openaiOK
    /\ cfg.impl = "core"
    /\ \E o \in Outcomes(Len(calls) + 1, overload) :
        /\ calls' = Append(calls, [backend |-> "openai", model |-> 0, attempt |-> 0, out |-> o])
        /\ IF o.kind = "error"
           THEN /\ pc' = "done"
                /\ result' = Raise(o)
                /\ UNCHANGED <<slot, attempt>>
           ELSE IF Truthy(o)
           THEN /\ pc' = "done"
                /\ result' = Return(o)
                /\ UNCHANGED <<slot, attempt>>
           ELSE Goto(AfterOpenAINone)
    /\ UNCHANGED <<cfg, sleeps, overload>>
    /\ UNCHANGED stageVars
    /\ UNCHANGED <<selVars, run>>

Next ==
    \/ Dispatch
    \/ MistralUnavailable
    \/ MistralCall
    \/ OpenAIUnavailable
    \/ OpenAINameError
    \/ OpenAICall

Spec == Init /\ [][Next]_vars

\* complete() is sequential code that runs on: a backend call returns or
\* raises, a sleep ends, and the next statement is executed
SpecLive == Spec /\ WF_vars(Next)

(***************************************************************************)
(* Texts.  A text is a sequence of characters (strings of length one).     *)
(***************************************************************************)
SP == " "
TAB == "\t"
NL == "\n"
\* the bullet character U+2022
BUL == "(bullet)"

\* str.strip() with no argument strips whitespace
WhiteSpace == {SP, TAB, NL}
\* the argument of l.strip(" -•\t")
BulletMarkers == {SP, "-", BUL, TAB}
\* \w of the regular expression: letters, digits, underscore
WordChars == {"a", "b", "c", "A", "B", "C", "_", "0", "1"}

\* str.lower() on one character
LowerChar(c) ==
    CASE c = "A" -> "a" [] c = "B" -> "b" [] c = "C" -> "c" [] OTHER -> c

MinOf(S) == CHOOSE x \in S : \A y \in S : x <= y
MaxOf(S) == CHOOSE x \in S : \A y \in S : y <= x

\* s.strip(chars): drop the characters of S from both ends
StripChars(s, S) ==
    LET keep == {i \in 1..Len(s) : s[i] \notin S}
    IN  IF keep = {} THEN <<>> ELSE SubSeq(s, MinOf(keep), MaxOf(keep))

\* str.splitlines(): cut at every newline; a final newline opens no line
RECURSIVE SplitLines(_)
SplitLines(t) ==
    IF t = <<>> THEN <<>>
    ELSE IF \A i \in 1..Len(t) : t[i] # NL THEN <<t>>
    ELSE LET k == CHOOSE i \in 1..Len(t) : t[i] = NL /\ \A j \in 1..(i - 1) : t[j] # NL
         IN  <<SubSeq(t, 1, k - 1)>> \o SplitLines(SubSeq(t, k + 1, Len(t)))

\* re.sub(r"\W+", " ", s): every maximal run of non-word characters becomes
\* one space
RECURSIVE CollapseNonWord(_, _)
CollapseNonWord(s, i) ==
    IF i > Len(s) THEN <<>>
    ELSE IF s[i] \in WordChars THEN <<s[i]>> \o CollapseNonWord(s, i + 1)
    ELSE IF i > 1 /\ s[i - 1] \notin WordChars THEN CollapseNonWord(s, i + 1)
    ELSE <<SP>> \o CollapseNonWord(s, i + 1)

\* faulty variant: the key is not lowercased
NormKey_NoLower(b) == StripChars(CollapseNonWord(b, 1), WhiteSpace)
\* k = re.sub(r"\W+", " ", b.lower()).strip()
NormKey(b) ==
    StripChars(CollapseNonWord([i \in 1..Len(b) |-> LowerChar(b[i])], 1), WhiteSpace)

\* [l.strip(" -•\t") for l in out.splitlines() if l.strip()]
BulletLines(out) ==
    LET ls == SplitLines(out)
        kept == SelectSeq(ls, LAMBDA l : StripChars(l, WhiteSpace) # <<>>)
    IN  [i \in 1..Len(kept) |-> StripChars(kept[i], BulletMarkers)]

\* a line of more than this many characters is a bullet (Map stage)
MinBulletChars == 3
\* Map: bullets = [l for l in lines if len(l) > 3]
MapBullets(out) == SelectSeq(BulletLines(out), LAMBDA l : Len(l) > MinBulletChars)

\* the de-duplication loop of both stages; Reduce (needKey) also drops a
\* bullet whose key is empty
RECURSIVE DedupFrom(_, _, _, _)
DedupFrom(bs, i, seen, needKey) ==
    IF i > Len(bs) THEN <<>>
    ELSE LET k == NormKey(bs[i])
         IN  IF (needKey => k # <<>>) /\ k \notin seen
             THEN <<bs[i]>> \o DedupFrom(bs, i + 1, seen \cup {k}, needKey)
             ELSE DedupFrom(bs, i + 1, seen, needKey)

\* uniq[:n]
TakeFirst(s, n) == SubSeq(s, 1, IF Len(s) < n THEN Len(s) ELSE n)

\* return uniq[:12]
MapCap == 12
\* return uniq[:18]
ReduceCap == 18

(***************************************************************************)
(* Article bodies.  A body is None ("null") or a sequence of paragraphs    *)
(* separated by blank lines; a paragraph is given by the number of         *)
(* whitespace characters around it and the length of what strip() leaves.  *)
(***************************************************************************)
\* paragraphs of at most this many characters are discarded
MinParaChars == 60
\* max_chars of group_paragraphs, as map_article_to_bullets passes it
ChunkChars == 1800

\* faulty variant: `len(p) >= 60`
SplitParagraphs_Inclusive(body) ==
    IF body.null THEN <<>>
    ELSE LET lens == [i \in 1..Len(body.paras) |-> body.paras[i].len]
         IN  SelectSeq(lens, LAMBDA n : n >= MinParaChars)
\* split_paragraphs(text): the stripped lengths of the paragraphs kept
SplitParagraphs(body) ==
    IF body.null THEN <<>>
    ELSE LET lens == [i \in 1..Len(body.paras) |-> body.paras[i].len]
         IN  SelectSeq(lens, LAMBDA n : n > MinParaChars)

\* group_paragraphs(paras, max_chars): the chunks, each the sequence of the
\* lengths of its paragraphs
RECURSIVE GroupFrom(_, _, _, _, _)
GroupFrom(paras, i, cur, curLen, maxChars) ==
    IF i > Len(paras)
    THEN IF cur # <<>> THEN <<cur>> ELSE <<>>
    ELSE IF curLen + paras[i] + 2 > maxChars /\ cur # <<>>
    THEN <<cur>> \o GroupFrom(paras, i + 1, <<paras[i]>>, paras[i] + 2, maxChars)
    ELSE GroupFrom(paras, i + 1, Append(cur, paras[i]), curLen + paras[i] + 2, maxChars)

GroupParagraphs(paras, maxChars) == GroupFrom(paras, 1, <<>>, 0, maxChars)

(***************************************************************************)
(* The stage functions.  complete(prompt) is the client above: it returns  *)
(* a non-empty text or raises.  `first` is the outcome of the first call a *)
(* stage issues and `later` the outcome of every later one.                *)
(***************************************************************************)
Ok(v) == [kind |-> "ok", val |-> v]
Raised == [kind |-> "raise", val |-> <<>>]
TextOut(t) == [kind |-> "text", text |-> t]
RaiseOut == [kind |-> "raise", text |-> <<>>]

RECURSIVE ConcatAll(_, _)
ConcatAll(ss, i) == IF i > Len(ss) THEN <<>> ELSE ss[i] \o ConcatAll(ss, i + 1)

\* faulty variant: a failed call is passed over and the loop goes on
CallsIssued_GoesOn(nChunks, failing) == nChunks
\* `for ch in chunks: ... out = complete(prompt)`: the calls issued when the
\* calls of the chunks in `failing` raise; an exception ends the loop
CallsIssued(nChunks, failing) == IF failing = {} THEN nChunks ELSE MinOf(failing)

\* map_article_to_bullets(body, ticker)
MapArticle(body, ticker, first, later) ==
    LET paras == SplitParagraphs(body)
        chunks == GroupParagraphs(paras, ChunkChars)
        out(c) == IF c = 1 THEN first ELSE later
        failing == {c \in 1..Len(chunks) : out(c).kind = "raise"}
        nCalls == CallsIssued(Len(chunks), failing)
        log == [c \in 1..nCalls |->
                   [prompt |-> [tmpl |-> "map", ticker |-> ticker, arg |-> chunks[c]],
                    out |-> out(c)]]
        all == ConcatAll([c \in 1..Len(chunks) |-> MapBullets(out(c).text)], 1)
    IN  IF paras = <<>> THEN [calls |-> <<>>, ret |-> Ok(<<>>)]
        ELSE IF failing # {} THEN [calls |-> log, ret |-> Raised]
        ELSE [calls |-> log, ret |-> Ok(TakeFirst(DedupFrom(all, 1, {}, FALSE), MapCap))]

\* faulty variant: only the first article's bullets are looked at
Flatten_FirstOnly(per) == IF per = <<>> THEN <<>> ELSE per[1]
\* flat = [b for lst in per_article_bullets for b in lst]
Flatten(per) == ConcatAll(per, 1)

\* reduce_articles_to_bullets(per_article_bullets, ticker)
ReduceArticles(per, ticker, first) ==
    LET flat == Flatten(per)
        log == <<[prompt |-> [tmpl |-> "reduce", ticker |-> ticker, arg |-> flat],
                  out |-> first]>>
    IN  IF flat = <<>> THEN [calls |-> <<>>, ret |-> Ok(<<>>)]
        ELSE IF first.kind = "raise" THEN [calls |-> log, ret |-> Raised]
        ELSE [calls |-> log,
              ret |-> Ok(TakeFirst(DedupFrom(BulletLines(first.text), 1, {}, TRUE), ReduceCap))]

\* final_summary(ticker, start, end, bullets, ...): core/summarize/map_reduce.py
\* takes max_chars and cuts the answer to it; aifinreport/analysis/
\* summarization.py takes target_chars and returns the stripped answer
FinalSummaryOf(impl, ticker, start, end, bullets, chars, first) ==
    LET log == <<[prompt |-> [tmpl |-> "final", ticker |-> ticker, arg |-> bullets],
                  out |-> first]>>
        stripped == StripChars(first.text, WhiteSpace)
    IN  IF first.kind = "raise" THEN [calls |-> log, ret |-> Raised]
        ELSE IF impl = "core" THEN [calls |-> log, ret |-> Ok(TakeFirst(stripped, chars))]
        ELSE [calls |-> log, ret |-> Ok(stripped)]

(***************************************************************************)
(* Inputs of the stage functions                                           *)
(***************************************************************************)
Tickers == {"NVDA", "TSLA"}
PeriodStart == "2025-10-01"
PeriodEnd == "2025-10-08"

RECURSIVE SeqsUpTo(_, _)
SeqsUpTo(S, n) ==
    IF n = 0 THEN {<<>>}
    ELSE LET shorter == SeqsUpTo(S, n - 1)
         IN  shorter \cup {Append(q, x) : q \in {r \in shorter : Len(r) = n - 1}, x \in S}

ParaPool ==
    {[pad |-> 0, len |-> MinParaChars], [pad |-> 1, len |-> MinParaChars],
     [pad |-> 0, len |-> MinParaChars + 1],
     [pad |-> 0, len |-> ChunkChars - MinParaChars - 3],
     [pad |-> 0, len |-> ChunkChars + 1]}
Bodies ==
    {[null |-> TRUE, paras |-> <<>>]}
    \cup {[null |-> FALSE, paras |-> ps] : ps \in SeqsUpTo(ParaPool, MaxParas)}

Letter(d) == CASE d = 0 -> "a" [] d = 1 -> "b" [] OTHER -> "c"
Word(k) == <<Letter((k \div 27) % 3), Letter((k \div 9) % 3), Letter((k \div 3) % 3), Letter(k % 3)>>
UpperChar(c) == CASE c = "a" -> "A" [] c = "b" -> "B" [] c = "c" -> "C" [] OTHER -> c
Upper(w) == [i \in 1..Len(w) |-> UpperChar(w[i])]

\* the j-th line of a backend response of style v
LineOf(v, j) ==
    CASE v = "plain" -> <<"-", SP>> \o Word(j)
      [] v = "shifted" -> <<BUL, SP>> \o Word(40 + j) \o <<SP>>
      [] v = "echo" ->
            LET w == Word((j + 3) \div 4)
            IN  CASE j % 4 = 1 -> <<"-", SP>> \o w
                  [] j % 4 = 2 -> <<"-", SP>> \o Upper(w) \o <<"!">>
                  [] j % 4 = 3 -> SubSeq(w, 1, 2) \o <<",", SP>> \o SubSeq(w, 3, 4)
                  [] OTHER -> <<TAB>> \o SubSeq(w, 1, 2) \o <<SP, "-", SP>> \o SubSeq(w, 3, 4)
      [] OTHER ->
            CASE j % 6 = 1 -> <<"-", SP>> \o Word(j)
              [] j % 6 = 2 -> <<SP, TAB>>
              [] j % 6 = 3 -> <<"-", SP, "a", "b">>
              [] j % 6 = 4 -> <<"!", "!", "!", "!">>
              [] j % 6 = 5 -> <<>>
              [] OTHER -> <<"-", "-", "-">>

RECURSIVE JoinLines(_, _)
JoinLines(v, n) ==
    IF n = 1 THEN LineOf(v, 1) ELSE JoinLines(v, n - 1) \o <<NL>> \o LineOf(v, n)

\* complete() returns no empty text: a response of no line is one space
GenText(v, n) == IF n = 0 THEN <<SP>> ELSE JoinLines(v, n)

Styles == {"plain", "shifted", "echo", "junk"}
LineCounts ==
    (0..MaxSmall) \cup {c + d : c \in {MapCap, ReduceCap}, d \in (-1)..MaxOver}
FirstOutcomes == {TextOut(GenText(v, n)) : v \in Styles, n \in LineCounts} \cup {RaiseOut}
LaterOutcomes == {TextOut(GenText(v, MaxSmall)) : v \in {"shifted", "echo"}} \cup {RaiseOut}

BulletLists == {<<>>, <<Word(1)>>, <<Word(1), Word(2)>>}
PerArticleBullets == SeqsUpTo(BulletLists, MaxArticles)

\* answers to the final prompt: n characters between pad spaces / newlines
FinalText(pad, n) ==
    [i \in 1..pad |-> SP] \o [i \in 1..n |-> Letter(i % 3)] \o [i \in 1..pad |-> NL]
FinalOutcomes ==
    ({TextOut(FinalText(pad, n)) : pad \in 0..1, n \in 0..MaxFinalChars} \ {TextOut(<<>>)})
    \cup {RaiseOut}

\* lists of paragraphs as split_paragraphs returns them (each of more than 60
\* characters), by length, and the max_chars group_paragraphs is given
ParaLens ==
    {MinParaChars + 1, MinParaChars + 2, ChunkChars - MinParaChars - 3, ChunkChars + 1}
ChunkBudgets == {2 * MinParaChars + 10, ChunkChars}

StageInputs ==
    [fn : {"map"}, ticker : Tickers, body : Bodies]
    \cup [fn : {"group"}, paras : SeqsUpTo(ParaLens, MaxParas), max_chars : ChunkBudgets]
    \cup [fn : {"reduce"}, ticker : Tickers, per : PerArticleBullets]
    \cup [fn : {"final"}, ticker : Tickers, impl : Impls, bullets : BulletLists,
          chars : 1..MaxTarget]

ClientIdle ==
    /\ cfg = [impl |-> "core", provider |-> "mistral", mistralOK |-> TRUE,
              openaiOK |-> TRUE, nFallbacks |-> 0]
    /\ pc = "idle"
    /\ slot = 0
    /\ attempt = 0
    /\ calls = <<>>
    /\ sleeps = <<>>
    /\ result = NoResult
    /\ overload = "capacity"

InitStages ==
    /\ stage \in StageInputs
    /\ stPc = "call"
    /\ stCalls = <<>>
    /\ stRet = [kind |-> "none", val |-> <<>>]
    /\ ClientIdle
    /\ SelectIdle
    /\ RunIdle

Returns(r) ==
    /\ stCalls' = r.calls
    /\ stRet' = r.ret
    /\ stPc' = "ret"
    /\ UNCHANGED stage
    /\ UNCHANGED clientVars
    /\ UNCHANGED <<selVars, run>>

MapArticleToBullets ==
    /\ stPc = "call"
    /\ stage.fn = "map"
    /\ \E first \in FirstOutcomes, later \in LaterOutcomes :
          Returns(MapArticle(stage.body, stage.ticker, first, later))

ReduceArticlesToBullets ==
    /\ stPc = "call"
    /\ stage.fn = "reduce"
    /\ \E first \in FirstOutcomes : Returns(ReduceArticles(stage.per, stage.ticker, first))

FinalSummary ==
    /\ stPc = "call"
    /\ stage.fn = "final"
    /\ \E first \in FinalOutcomes :
          Returns(FinalSummaryOf(stage.impl, stage.ticker, PeriodStart, PeriodEnd,
                                 stage.bullets, stage.chars, first))

\* group_paragraphs(paras, max_chars), called directly
GroupParagraphsCall ==
    /\ stPc = "call"
    /\ stage.fn = "group"
    /\ Returns([calls |-> <<>>, ret |-> Ok(GroupParagraphs(stage.paras, stage.max_chars))])

NextStages ==
    \/ GroupParagraphsCall
    \/ MapArticleToBullets
    \/ ReduceArticlesToBullets
    \/ FinalSummary

SpecStages == InitStages /\ [][NextStages]_vars

(***************************************************************************)
(* The article selector (core/selectors/select_finance_yahoo.py and its    *)
(* packaged copy src/aifinreport/analysis/selection.py).                   *)
(*                                                                         *)
(* Scores are exact fractions: a body-length score is a number of          *)
(* 1/70000ths and an article score, which the code rounds to 6 decimals,   *)
(* a number of millionths.                                                 *)
(***************************************************************************)
\* FINANCIAL_TITLE_KEYWORDS of select_finance_yahoo.py
FINANCIAL_TITLE_KEYWORDS ==
    {"guidance", "margin", "eps", "revenue", "earnings", "profit",
     "beat", "miss", "outlook", "forecast", "upgrade", "downgrade",
     "q1", "q2", "q3", "q4", "%", "surge", "plunge", "rally", "drop",
     "delivery", "deliveries", "production", "sales", "growth"}

\* FINANCIAL_KEYWORDS of selection.py
FINANCIAL_KEYWORDS ==
    {"earnings", "eps", "revenue", "profit", "loss", "income",
     "guidance", "outlook", "forecast", "beat", "miss", "results",
     "q1", "q2", "q3", "q4", "quarter", "quarterly", "annual", "fy",
     "upgrade", "downgrade", "rating", "price target", "valuation",
     "surge", "plunge", "rally", "drop", "soar", "tumble",
     "jump", "fall", "rise", "climb",
     "merger", "acquisition", "buyback", "deal", "investment",
     "partnership", "stake", "divest",
     "delivery", "deliveries", "production", "sales", "growth",
     "orders", "backlog", "shipment",
     "margin", "cash flow", "dividend", "debt", "assets", "balance sheet",
     "market share", "competition", "leader", "expansion",
     "lawsuit", "investigation", "recall", "regulatory",
     "%", "billion", "million", "$", "bps"}

\* A text field of an article is absent from the record, null (None), or a
\* text of `len` characters made of the words `words`.
AbsentText == [st |-> "absent", len |-> 0, words |-> <<>>]
NoneText == [st |-> "null", len |-> 0, words |-> <<>>]
EmptyText == [st |-> "val", len |-> 0, words |-> <<>>]
\* full_body_chars likewise: absent, null, or the integer n
AbsentInt == [st |-> "absent", n |-> 0]
NoneInt == [st |-> "null", n |-> 0]
IntVal(n) == [st |-> "val", n |-> n]

\* article.get(k): None when the key is absent
GetText(article, k) == IF article[k].st = "absent" THEN NoneText ELSE article[k]
GetInt(article, k) == IF article[k].st = "absent" THEN NoneInt ELSE article[k]

\* faulty variant: the value is used as it is
OrEmpty_Missing(v) == v
\* `v or ""`
OrEmpty(v) == IF v.st = "null" \/ v.len = 0 THEN EmptyText ELSE v
\* `v or 0`
OrZero(v) == IF v.st = "null" \/ v.n = 0 THEN IntVal(0) ELSE v

\* str.lower() on one word of the texts used here
LowerWord(w) ==
    CASE w = "EPS" -> "eps"
      [] w = "Earnings" -> "earnings"
      [] w = "Beat" -> "beat"
      [] w = "Quarterly" -> "quarterly"
      [] w = "NVIDIA" -> "nvidia"
      [] w = "Nvidia" -> "nvidia"
      [] OTHER -> w
\* the keywords kw of either list with `kw in w`, for a lowercased word w of
\* the texts used here
KeywordsOf(w) ==
    {w} \cup {p[2] : p \in {q \in {<<"quarterly", "quarter">>, <<"12%", "%">>,
                                    <<"misses", "miss">>} : q[1] = w}}
\* {kw for kw in KW if kw in text.lower()}
KeywordsIn(text, KW) ==
    UNION {KeywordsOf(LowerWord(text.words[i])) : i \in 1..Len(text.words)} \cap KW

MinNum(a, b) == IF a < b THEN a ELSE b

\* round(a / b) for b > 0, halves to the even neighbour as round() does
RoundHalfEven(a, b) ==
    LET q == a \div b
        r == a % b
    IN  IF 2 * r < b THEN q
        ELSE IF 2 * r > b THEN q + 1
        ELSE IF q % 2 = 0 THEN q ELSE q + 1

\* the body-length curve
TooShortChars == 500
PeakChars == 2500
TooLongChars == 6000
\* body-length scores are counted in 1/BodyUnit: (n - 500) / 2000.0 is
\* 35 (n - 500) units, 0.8 is 56000 units and (6000 - n) / 3500.0 * 0.2 is
\* 4 (6000 - n) units
BodyUnit == 70000

\* faulty variant: the rise is computed with an integer division
ScoreBodyLength_FloorDiv(v) ==
    IF v.st = "null" \/ v.n <= TooShortChars THEN 0
    ELSE IF v.n >= TooLongChars THEN (BodyUnit * 4) \div 5
    ELSE IF v.n <= PeakChars THEN BodyUnit * ((v.n - TooShortChars) \div (PeakChars - TooShortChars))
    ELSE (BodyUnit * 4) \div 5 + 4 * (TooLongChars - v.n)
\* _score_body_length(n)
ScoreBodyLength(v) ==
    IF v.st = "null" \/ v.n <= TooShortChars THEN 0
    ELSE IF v.n >= TooLongChars THEN (BodyUnit * 4) \div 5
    ELSE IF v.n <= PeakChars THEN (BodyUnit \div 2000) * (v.n - TooShortChars)
    ELSE (BodyUnit * 4) \div 5 + ((BodyUnit \div 3500) * (TooLongChars - v.n)) \div 5

\* what a scoring call ends with: a score in millionths, or an exception
ScoreOk(n) == [kind |-> "ok", val |-> n, err |-> "none"]
ScoreRaise(e) == [kind |-> "raise", val |-> 0, err |-> e]

\* 0.025 per keyword and the cap 0.15, in thousandths
TitleKeywordBonus == 25
TitleBonusCap == 150
\* _score_title_signals(title) of select_finance_yahoo.py, in thousandths
ScoreTitleSignals(title) ==
    IF title.st = "null" \/ title.len = 0 THEN 0
    ELSE MinNum(TitleKeywordBonus * Cardinality(KeywordsIn(title, FINANCIAL_TITLE_KEYWORDS)),
                TitleBonusCap)

\* summary length that earns the full summary score
SummaryFullChars == 1200

\* calculate_article_score(article) of select_finance_yahoo.py:
\*   round(0.60 * min(len, 1200) / 1200 + 0.30 * body + 0.10 * title, 6)
\* in millionths: 500 min(len, 1200) + (30 / 7) body units + 100 title
\* thousandths, all over the denominator 7
ScoreCore(article) ==
    LET summary == OrEmpty(GetText(article, "summary"))
        body == ScoreBodyLength(OrZero(GetInt(article, "full_body_chars")))
        title == ScoreTitleSignals(OrEmpty(GetText(article, "title")))
    IN  IF summary.st = "null" THEN ScoreRaise("TypeError")   \* len(None)
        ELSE ScoreOk(RoundHalfEven(3500 * MinNum(summary.len, SummaryFullChars)
                                   + 30 * body + 700 * title, 7))

\* keyword counts that earn the full title / description / summary part
TitleFullMatches == 6
TextFullMatches == 10
\* content-relevance scores are counted in 1/ContentUnit: a title keyword is
\* 0.4 / 6 = 20 units, a description or summary keyword 0.3 / 10 = 9 units
ContentUnit == 300

\* one part of the content score: `if text: ... min(matches / full, 1.0) * w`
ContentPart(text, full, unit) ==
    IF text.st = "null" \/ text.len = 0 THEN 0
    ELSE unit * MinNum(Cardinality(KeywordsIn(text, FINANCIAL_KEYWORDS)), full)

\* faulty variant: no part and no sum is capped
ScoreContentRelevance_NoCap(title, description, summary) ==
    20 * Cardinality(KeywordsIn(title, FINANCIAL_KEYWORDS))
    + 9 * Cardinality(KeywordsIn(description, FINANCIAL_KEYWORDS))
    + 9 * Cardinality(KeywordsIn(summary, FINANCIAL_KEYWORDS))
\* _score_content_relevance(title, description, summary) of selection.py
ScoreContentRelevance(title, description, summary) ==
    MinNum(ContentPart(title, TitleFullMatches, 20)
           + ContentPart(description, TextFullMatches, 9)
           + ContentPart(summary, TextFullMatches, 9),
           ContentUnit)

\* calculate_article_score(article) of selection.py:
\*   round(0.30 * body + 0.70 * content, 6)
\* in millionths: (30 / 7) body units + (7000 / 3) content units, over 21
ScorePkg(article) ==
    LET body == ScoreBodyLength(OrZero(GetInt(article, "full_body_chars")))
        content == ScoreContentRelevance(OrEmpty(GetText(article, "title")),
                                         OrEmpty(GetText(article, "description")),
                                         OrEmpty(GetText(article, "summary")))
    IN  ScoreOk(RoundHalfEven(90 * body + 49000 * content, 21))

CalculateArticleScore(impl, article) ==
    IF impl = "core" THEN ScoreCore(article) ELSE ScorePkg(article)

(***************************************************************************)
(* select_articles: the rows of the query, de-duplication, scoring, the    *)
(* sort by score and the choice of the rows returned.  A row is            *)
(* [id, published_utc, title, source, description, summary,                *)
(*  full_body_chars]; a scored article is [row, score].                    *)
(***************************************************************************)
\* the only source the query lets through
YahooSource == "finance.yahoo.com"

\* Series.fillna("")
FillNa(v) == IF v.st = "val" THEN v ELSE EmptyText

\* df["title"].fillna("").str.lower() + "||" + df["source"].fillna("")
DedupKey(row) ==
    LET t == FillNa(row.title).words
    IN  [i \in 1..Len(t) |-> LowerWord(t[i])] \o <<"||", row.source>>

\* the order a stable ascending sort on `keys` puts the positions in
StableOrder(keys) ==
    LET k == keys \o <<>>
    IN  [p \in 1..Len(k) |->
            CHOOSE i \in 1..Len(k) :
                Cardinality({j \in 1..Len(k) : k[j] < k[i] \/ (k[j] = k[i] /\ j < i)}) = p - 1]
        \o <<>>
StableSort(s, keys) == LET o == StableOrder(keys) IN [p \in 1..Len(s) |-> s[o[p]]] \o <<>>

\* df.sort_values("published_utc").drop_duplicates("_key", keep="last")
Dedup(rows) ==
    LET sorted == StableSort(rows, [i \in 1..Len(rows) |-> rows[i].published_utc])
        last == {i \in 1..Len(sorted) :
                    \A j \in (i + 1)..Len(sorted) : DedupKey(sorted[j]) # DedupKey(sorted[i])}
        at == StableOrder([i \in 1..Len(sorted) |-> IF i \in last THEN 0 ELSE 1])
    IN  [p \in 1..Cardinality(last) |-> sorted[at[p]]] \o <<>>

\* a list[:n] of Python: n < 0 counts from the end
PySlice(s, n) ==
    IF n >= 0 THEN SubSeq(s, 1, MinNum(n, Len(s)))
    ELSE SubSeq(s, 1, IF Len(s) + n > 0 THEN Len(s) + n ELSE 0)

(***************************************************************************)
(* apply_mmr_diversity.  Positions of a list are counted from 1.           *)
(***************************************************************************)
\* words the vectorizer drops (stop_words='english'), among the words used
\* here; "none" is what a null title or summary is formatted as
StopWords == {"the", "none"}

\* the terms the vectorizer keeps of f"{a.get('title', '')} {a.get('summary', '')}"
Terms(row) ==
    LET ws(v) == IF v.st = "val" THEN {LowerWord(v.words[i]) : i \in 1..Len(v.words)} ELSE {}
    IN  (ws(row.title) \cup ws(row.summary)) \ StopWords

\* similarities are counted in millionths
SimOne == 1000000
\* cosine_similarity of the TF-IDF rows of a and b: 0 when they share no
\* term, 1 when their terms are the same, `mid` in between
Similarity(a, b, mid) ==
    IF Terms(a) \cap Terms(b) = {} THEN 0
    ELSE IF Terms(a) = Terms(b) THEN SimOne
    ELSE mid

\* fit_transform raises ValueError("empty vocabulary; ...") when no text
\* has a term
EmptyVocabulary(arts) == \A i \in 1..Len(arts) : Terms(arts[i].row) = {}

\* lambda_param is counted in tenths
LambdaOne == 10
DefaultLambda == 5

\* max(remaining_idx, key=score): the first of the greatest, and a set of
\* small integers is iterated in ascending order
BestIdx(arts, rem) ==
    MinOf({i \in rem : \A j \in rem : arts[j].score <= arts[i].score})

\* faulty variant: the similarity to the articles selected is left out
MmrScore_NoPenalty(arts, c, selected, lam, mid) == lam * arts[c].score
\* lambda_param * relevance - (1 - lambda_param) * max_similarity, times 10
MmrScore(arts, c, selected, lam, mid) ==
    lam * arts[c].score
    - (LambdaOne - lam) * MaxOf({Similarity(arts[c].row, arts[selected[k]].row, mid) :
                                    k \in 1..Len(selected)})

\* faulty variant: any candidate of the greatest MMR value may be taken
BestCandidates_AnyOfTies(arts, selected, rem, lam, mid) ==
    {c \in rem : \A d \in rem :
        MmrScore(arts, d, selected, lam, mid) <= MmrScore(arts, c, selected, lam, mid)}
\* the candidates the inner loop can end with: `if mmr_score > best_mmr`
\* keeps the first of the greatest
BestCandidates(arts, selected, rem, lam, mid) ==
    {MinOf({c \in rem : \A d \in rem :
        MmrScore(arts, d, selected, lam, mid) <= MmrScore(arts, c, selected, lam, mid)})}

\* faulty variant: `if len(articles) < max_articles`
ReturnsAll_Strict(arts, n) == Len(arts) < n
\* `if len(articles) <= max_articles: return articles`
ReturnsAll(arts, n) == Len(arts) <= n

\* `while len(selected_idx) < max_articles and remaining_idx`
LoopGoesOn(selected, rem, n) == Len(selected) < n /\ rem # {}

(***************************************************************************)
(* Inputs of the selector functions                                        *)
(***************************************************************************)
Txt(n, ws) == [st |-> "val", len |-> n, words |-> ws]

CapsText == Txt(17, <<"EPS", "Earnings", "Beat">>)
PlainText == Txt(600, <<"Nvidia", "the">>)
RichText ==
    Txt(1300, <<"guidance", "margin", "eps", "revenue", "earnings", "profit",
                "beat", "outlook", "forecast", "upgrade", "q3", "growth", "Quarterly">>)
TextPool == {AbsentText, NoneText, EmptyText, CapsText, PlainText, RichText}
IntPool ==
    {AbsentInt, NoneInt}
    \cup {IntVal(n) : n \in {0, TooShortChars, TooShortChars + 1, PeakChars,
                             (PeakChars + TooLongChars) \div 2, TooLongChars}}

ScoreArticles ==
    [title : TextPool, description : TextPool, summary : TextPool, full_body_chars : IntPool]

\* the rows the query can return: each passes `full_body_chars >= 800`
RowKinds == 1..4
RowOf(kind, id, t) ==
    LET title == CASE kind = 1 -> Txt(11, <<"NVIDIA", "Beat">>)
                   [] kind = 2 -> Txt(11, <<"Nvidia", "beat">>)
                   [] kind = 3 -> Txt(12, <<"EPS", "guidance">>)
                   [] OTHER -> NoneText
        summary == CASE kind = 1 -> Txt(600, <<"revenue">>)
                     [] kind = 2 -> Txt(1300, <<"revenue", "margin">>)
                     [] kind = 3 -> EmptyText
                     [] OTHER -> NoneText
        chars == CASE kind = 1 -> PeakChars
                   [] kind = 2 -> 900
                   [] kind = 3 -> TooLongChars
                   [] OTHER -> 800
    IN  [id |-> id, published_utc |-> t, title |-> title, source |-> YahooSource,
         description |-> IF kind = 4 THEN NoneText ELSE CapsText,
         summary |-> summary, full_body_chars |-> IntVal(chars)]

PublishTimes == {1, 2}

\* the query ends with ORDER BY published_utc
RowSeqs ==
    UNION {{[i \in 1..len |-> RowOf(ks[i], i, ts[i])] \o <<>> :
               ks \in [1..len -> RowKinds],
               ts \in {f \in [1..len -> PublishTimes] : \A i \in 1..(len - 1) : f[i] <= f[i + 1]}} :
           len \in 0..MaxRows}

ScoreLevels == {200000, 600000}
MmrKinds == {1, 2, 4}
ScoredSeqs ==
    UNION {{[i \in 1..len |-> [row |-> RowOf(ks[i], i, 1), score |-> ss[i]]] \o <<>> :
               ks \in [1..len -> MmrKinds], ss \in [1..len -> ScoreLevels]} :
           len \in 0..MaxRows}

\* the similarity of two texts that share some terms but not all
SimMid == 500000

SelectInputs ==
    [fn : {"body"}, n : {NoneInt} \cup {IntVal(n) : n \in (-1)..MaxBodyChars}]
    \cup [fn : {"score"}, impl : Impls, article : ScoreArticles]
    \cup [fn : {"mmr"}, arts : ScoredSeqs, n : 0..MaxRows, lam : {0, DefaultLambda, LambdaOne},
          mid : {SimMid}]
    \cup [fn : {"select"}, impl : Impls, rows : RowSeqs, n : (-1)..MaxRows, use_mmr : BOOLEAN,
          lam : {DefaultLambda}, mid : {SimMid}]

SelOk(v) == [kind |-> "ok", val |-> v, err |-> "none"]
SelRaise(e) == [kind |-> "raise", val |-> <<>>, err |-> e]

InitSelect ==
    /\ sel \in SelectInputs
    /\ selPc = [r \in Runs |-> "call"]
    /\ articles = [r \in Runs |-> <<>>]
    /\ selected_idx = [r \in Runs |-> <<>>]
    /\ remaining_idx = [r \in Runs |-> {}]
    /\ selRet = [r \in Runs |-> [kind |-> "none", val |-> <<>>, err |-> "none"]]
    /\ ClientIdle
    /\ StagesIdle
    /\ RunIdle

\* the second call is made when the first has ended
Turn(r) == IF r = 1 THEN TRUE ELSE selPc[r - 1] = "ret"

SelReturns(r, ret) ==
    /\ selRet' = [selRet EXCEPT ![r] = ret]
    /\ selPc' = [selPc EXCEPT ![r] = "ret"]

\* _score_body_length(n)
ScoreBodyLengthCall(r) ==
    /\ sel.fn = "body"
    /\ selPc[r] = "call"
    /\ Turn(r)
    /\ SelReturns(r, ScoreOk(ScoreBodyLength(sel.n)))
    /\ UNCHANGED <<sel, articles, selected_idx, remaining_idx>>
    /\ UNCHANGED <<clientVars, stageVars, run>>

\* calculate_article_score(article)
CalculateArticleScoreCall(r) ==
    /\ sel.fn = "score"
    /\ selPc[r] = "call"
    /\ Turn(r)
    /\ SelReturns(r, CalculateArticleScore(sel.impl, sel.article))
    /\ UNCHANGED <<sel, articles, selected_idx, remaining_idx>>
    /\ UNCHANGED <<clientVars, stageVars, run>>

\* what the call under way returns for the list `list` of scored articles:
\* select_articles drops the "__score" field of each
Finish(list) ==
    IF sel.fn = "select" THEN [i \in 1..Len(list) |-> list[i].row] \o <<>> ELSE list

\* apply_mmr_diversity(arts, n, lam) up to the loop: the early return, the
\* similarity matrix and the first pick
MmrEnter(r, arts, n) ==
    /\ articles' = [articles EXCEPT ![r] = arts]
    /\ IF ReturnsAll(arts, n)
       THEN /\ SelReturns(r, SelOk(Finish(arts)))
            /\ UNCHANGED <<selected_idx, remaining_idx>>
       ELSE IF EmptyVocabulary(arts)
       THEN /\ SelReturns(r, SelRaise("ValueError_empty_vocabulary"))
            /\ UNCHANGED <<selected_idx, remaining_idx>>
       ELSE LET best_idx == BestIdx(arts, 1..Len(arts))
            IN  /\ selected_idx' = [selected_idx EXCEPT ![r] = <<best_idx>>]
                /\ remaining_idx' = [remaining_idx EXCEPT ![r] = (1..Len(arts)) \ {best_idx}]
                /\ selPc' = [selPc EXCEPT ![r] = "loop"]
                /\ UNCHANGED selRet

\* apply_mmr_diversity(articles, max_articles, lambda_param), called directly
ApplyMmrDiversity(r) ==
    /\ sel.fn = "mmr"
    /\ selPc[r] = "call"
    /\ Turn(r)
    /\ MmrEnter(r, sel.arts, sel.n)
    /\ UNCHANGED sel
    /\ UNCHANGED <<clientVars, stageVars, run>>

\* one iteration of the while loop of apply_mmr_diversity
MmrLoop(r) ==
    /\ selPc[r] = "loop"
    /\ LoopGoesOn(selected_idx[r], remaining_idx[r], sel.n)
    /\ \E best_candidate \in BestCandidates(articles[r], selected_idx[r], remaining_idx[r],
                                            sel.lam, sel.mid) :
          /\ selected_idx' = [selected_idx EXCEPT ![r] = Append(@, best_candidate)]
          /\ remaining_idx' = [remaining_idx EXCEPT ![r] = @ \ {best_candidate}]
    /\ UNCHANGED <<sel, selPc, articles, selRet>>
    /\ UNCHANGED <<clientVars, stageVars, run>>

\* the loop ends: return [articles[i] for i in selected_idx]
MmrReturn(r) ==
    /\ selPc[r] = "loop"
    /\ ~LoopGoesOn(selected_idx[r], remaining_idx[r], sel.n)
    /\ SelReturns(r, SelOk(Finish([k \in 1..Len(selected_idx[r]) |->
                                      articles[r][selected_idx[r][k]]] \o <<>>)))
    /\ UNCHANGED <<sel, articles, selected_idx, remaining_idx>>
    /\ UNCHANGED <<clientVars, stageVars, run>>

\* for article in articles: article["__score"] = calculate_article_score(article)
Scored(impl, rows) ==
    [i \in 1..Len(rows) |-> [row |-> rows[i], res |-> CalculateArticleScore(impl, rows[i])]]
    \o <<>>

\* articles.sort(key=lambda x: x["__score"], reverse=True): list.sort is
\* stable, also with reverse=True
SortedByScore(scored) ==
    StableSort([i \in 1..Len(scored) |-> [row |-> scored[i].row, score |-> scored[i].res.val]]
               \o <<>>,
               [i \in 1..Len(scored) |-> 0 - scored[i].res.val])

\* select_articles(ticker, start, end, max_articles, min_body_chars, use_mmr)
\* from the rows the query returned
SelectArticles(r) ==
    /\ sel.fn = "select"
    /\ selPc[r] = "call"
    /\ Turn(r)
    /\ IF sel.rows = <<>>
       THEN /\ SelReturns(r, SelOk(<<>>))
            /\ UNCHANGED <<articles, selected_idx, remaining_idx>>
       ELSE \E scored \in {Scored(sel.impl, Dedup(sel.rows))} :
            IF \E i \in 1..Len(scored) : scored[i].res.kind = "raise"
            THEN /\ SelReturns(r, SelRaise("TypeError"))
                 /\ UNCHANGED <<articles, selected_idx, remaining_idx>>
            ELSE \E arts \in {SortedByScore(scored)} :
                    IF sel.use_mmr /\ sel.n # 0
                    THEN MmrEnter(r, arts, sel.n)
                    ELSE /\ articles' = [articles EXCEPT ![r] = arts]
                         /\ SelReturns(r, SelOk(Finish(IF sel.n # 0 THEN PySlice(arts, sel.n)
                                                        ELSE arts)))
                         /\ UNCHANGED <<selected_idx, remaining_idx>>
    /\ UNCHANGED sel
    /\ UNCHANGED <<clientVars, stageVars, run>>

NextSelect ==
    \E r \in Runs :
        \/ ScoreBodyLengthCall(r)
        \/ CalculateArticleScoreCall(r)
        \/ ApplyMmrDiversity(r)
        \/ MmrLoop(r)
        \/ MmrReturn(r)
        \/ SelectArticles(r)

SpecSelect == InitSelect /\ [][NextSelect]_vars

(***************************************************************************)
(* run() of scripts/make_ticker_period_summary.py: the rows select_articles *)
(* returned are mapped one by one, the bullets reduced, and final_summary  *)
(* called.                                                                 *)
(***************************************************************************)
\* full_body of the rows: "", a text with no paragraph of more than 60
\* characters, a text of one chunk, a text of two chunks
RunBodies ==
    {[null |-> FALSE, paras |-> <<>>],
     [null |-> FALSE, paras |-> <<[pad |-> 0, len |-> MinParaChars]>>],
     [null |-> FALSE, paras |-> <<[pad |-> 0, len |-> MinParaChars + 1]>>],
     [null |-> FALSE, paras |-> <<[pad |-> 0, len |-> ChunkChars + 1],
                                  [pad |-> 0, len |-> MinParaChars + 1]>>]}
RunRows == SeqsUpTo(RunBodies, MaxRows)
RunOutcomes == {TextOut(GenText("plain", 2)), TextOut(GenText("junk", 2)), RaiseOut}

NoError == [stage |-> "none", name |-> "none", row |-> 0]

\* faulty variant: the Reduce statement is inside the loop over the rows
NextStage_ReduceInLoop(at, done, n) ==
    CASE at = "start" -> IF done < n THEN "map" ELSE "reduce"
      [] at = "map" -> "reduce"
      [] at = "reduce" -> IF done < n THEN "map" ELSE "final"
      [] OTHER -> "done"
\* the stage run() goes to after the statement `at`, with `done` of the n
\* rows looked at: the loop over the rows, then Reduce, then Final
NextStage(at, done, n) ==
    CASE at \in {"start", "map"} -> IF done < n THEN "map" ELSE "reduce"
      [] at = "reduce" -> "final"
      [] OTHER -> "done"

\* n completion calls of stage st, issued and answered one after the other
LogCalls(st, n) == [k \in 1..n |-> st]

InitRun ==
    /\ run \in {[pc |-> NextStage("start", 0, Len(rows)), ticker |-> ticker, rows |-> rows,
                  i |-> 1, per_article_bullets |-> <<>>, consolidated |-> <<>>, nCalls |-> 0,
                  log |-> <<>>, err |-> NoError] : ticker \in Tickers, rows \in RunRows}
    /\ ClientIdle
    /\ StagesIdle
    /\ SelectIdle

\* `body = r.get("full_body") or ""`, `if not body`
NoBody(body) == body.null \/ body.paras = <<>>

\* one iteration of `for r in rows`: the row is skipped, or mapped; an
\* exception of map_article_to_bullets is not caught
RunMapArticle ==
    /\ run.pc = "map"
    /\ IF NoBody(run.rows[run.i])
       THEN run' = [run EXCEPT !.i = @ + 1,
                               !.pc = NextStage("map", run.i, Len(run.rows))]
       ELSE \E first, later \in RunOutcomes :
               \E m \in {MapArticle(run.rows[run.i], run.ticker, first, later)} :
                  IF m.ret.kind = "raise"
                  THEN run' = [run EXCEPT !.pc = "aborted",
                                          !.nCalls = @ + Len(m.calls),
                                          !.log = @ \o LogCalls("map", Len(m.calls)),
                                          !.err = [stage |-> "map", name |-> "backend_error",
                                                   row |-> run.i]]
                  ELSE run' = [run EXCEPT !.i = @ + 1,
                                          !.pc = NextStage("map", run.i, Len(run.rows)),
                                          !.nCalls = @ + Len(m.calls),
                                          !.log = @ \o LogCalls("map", Len(m.calls)),
                                          !.per_article_bullets =
                                              IF m.ret.val # <<>> THEN Append(@, m.ret.val)
                                              ELSE @]
    /\ UNCHANGED <<clientVars, stageVars, selVars>>

\* consolidated = reduce_articles_to_bullets(per_article_bullets, ticker)
RunReduce ==
    /\ run.pc = "reduce"
    /\ \E first \in RunOutcomes :
          \E m \in {ReduceArticles(run.per_article_bullets, run.ticker, first)} :
             IF m.ret.kind = "raise"
             THEN run' = [run EXCEPT !.pc = "aborted",
                                     !.nCalls = @ + Len(m.calls),
                                     !.log = @ \o LogCalls("reduce", Len(m.calls)),
                                     !.err = [stage |-> "reduce", name |-> "backend_error",
                                              row |-> 0]]
             ELSE run' = [run EXCEPT !.pc = NextStage("reduce", run.i - 1, Len(run.rows)),
                                     !.nCalls = @ + Len(m.calls),
                                     !.log = @ \o LogCalls("reduce", Len(m.calls)),
                                     !.consolidated = m.ret.val]
    /\ UNCHANGED <<clientVars, stageVars, selVars>>

\* final_summary(ticker, start, end, consolidated, target_chars=...,
\* min_chars=..., max_chars=...): the final_summary the script imports, of
\* core/summarize/map_reduce.py, takes no target_chars and no min_chars, so
\* the call raises TypeError before the function issues its completion call
RunFinalSummary ==
    /\ run.pc = "final"
    /\ run' = [run EXCEPT !.pc = "aborted",
                          !.err = [stage |-> "final", name |-> "TypeError", row |-> 0]]
    /\ UNCHANGED <<clientVars, stageVars, selVars>>

NextRun ==
    \/ RunMapArticle
    \/ RunReduce
    \/ RunFinalSummary

SpecRun == InitRun /\ [][NextRun]_vars

(***************************************************************************)
(* Properties of the completion client                                     *)
(***************************************************************************)
CallsOf(b, m) == {i \in 1..Len(calls) : calls[i].backend = b /\ calls[i].model = m}
OpenAICalls == {i \in 1..Len(calls) : calls[i].backend = "openai"}
IsTransientOut(o) == o.kind = "error" /\ o.val \in TransientKinds
IsPermanentOut(o) == o.kind = "error" /\ o.val \notin TransientKinds
NoTextOut(o) == o.kind \in {"empty", "null"}

\* model s of Mistral was given up before call i: it is unavailable and was
\* never called, or its last call returned no text, or all MaxRetries calls
\* failed with a capacity error
ExhaustedBefore(s, i) ==
    LET C == {j \in CallsOf("mistral", s) : j < i}
    IN  IF ~cfg.mistralOK THEN C = {}
        ELSE /\ C # {}
             /\ \/ NoTextOut(calls[MaxOf(C)].out)
                \/ /\ Cardinality(C) = MaxRetries
                   /\ \A j \in C : IsTransientOut(calls[j].out)

\* C1: the primary model is called at most MaxRetries (4) times in one
\* request, and every call on it after the first directly follows a call on
\* it that failed with a capacity error (429 / capacity).
C1_PrimaryRetriesBounded ==
    LET P == CallsOf("mistral", 0)
    IN  /\ Cardinality(P) <= MaxRetries
        /\ \A i \in P : (\E j \in P : j < i) =>
              /\ i - 1 \in P
              /\ IsTransientOut(calls[i - 1].out)

C1_Witness ==
    /\ cfg.provider = "mistral"
    /\ Cardinality(CallsOf("mistral", 0)) = MaxRetries
    /\ \A i \in CallsOf("mistral", 0) : IsTransientOut(calls[i].out)

\* C2: a backend call (primary, fallback or OpenAI) that fails with an error
\* that is not a capacity error is the last call of the request, and
\* complete() ends by raising that very error.
C2_PermanentErrorPropagates ==
    \A i \in 1..Len(calls) : IsPermanentOut(calls[i].out) =>
        /\ i = Len(calls)
        /\ pc = "done"
        /\ result = Raise(calls[i].out)

C2_Witness ==
    /\ pc = "done"
    /\ Len(calls) > MaxRetries
    /\ calls[Len(calls)].backend = "mistral"
    /\ calls[Len(calls)].model = 1
    /\ calls[Len(calls)].out.val = "sdk_other"
    /\ result = Raise(calls[Len(calls)].out)

\* the primary model failed MaxRetries times in a row with capacity errors
PrimaryExhausted ==
    /\ Len(calls) >= MaxRetries
    /\ \A i \in 1..MaxRetries :
          /\ calls[i].backend = "mistral"
          /\ calls[i].model = 0
          /\ IsTransientOut(calls[i].out)

\* C3 (as claimed): with the provider mistral and the primary model exhausted
\* by MaxRetries capacity errors, each fallback model is called at most once,
\* a fallback is called only after every earlier one was called and gave no
\* text, and the request does not end before the first fallback was called.
C3_FallbacksOnceInOrder ==
    (cfg.provider = "mistral" /\ PrimaryExhausted) =>
        /\ \A s \in 1..cfg.nFallbacks : Cardinality(CallsOf("mistral", s)) <= 1
        /\ \A i \in 1..Len(calls) :
              (calls[i].backend = "mistral" /\ calls[i].model >= 1) =>
                  \A r \in 1..(calls[i].model - 1) :
                      \E j \in CallsOf("mistral", r) : j < i /\ calls[j].out.kind # "text"
        /\ (pc = "done" /\ cfg.nFallbacks >= 1) => CallsOf("mistral", 1) # {}

\* C4: a backend call that returns a text is the last call of the request
\* and complete() returns exactly that text.  In particular, after
\* MaxRetries capacity failures of the primary model and a text from
\* fallback #1, neither fallback #2 nor OpenAI is called.
C4_FirstTextEndsRequest ==
    \A i \in 1..Len(calls) : calls[i].out.kind = "text" =>
        /\ i = Len(calls)
        /\ pc = "done"
        /\ result = Return(calls[i].out)

C4_Witness ==
    /\ cfg.nFallbacks = 2
    /\ cfg.openaiOK
    /\ Len(calls) = MaxRetries + 1
    /\ \A i \in 1..MaxRetries : calls[i].model = 0 /\ IsTransientOut(calls[i].out)
    /\ calls[MaxRetries + 1].model = 1
    /\ calls[MaxRetries + 1].out.kind = "text"
    /\ pc = "done"
    /\ result = Return(calls[MaxRetries + 1].out)
    /\ CallsOf("mistral", 2) = {}
    /\ OpenAICalls = {}

C6_SingleExhaustedError ==
    ( /\ pc = "done"
      /\ cfg.provider = "mistral"
      /\ \A s \in 0..cfg.nFallbacks : CallsOf("mistral", s) # {}
      /\ OpenAICalls # {}
      /\ \A i \in 1..Len(calls) : IsTransientOut(calls[i].out) \/ NoTextOut(calls[i].out) )
    => result = RaiseOwn("RuntimeError_all_backends_failed")

(***************************************************************************)
(* Properties of the stage functions                                       *)
(***************************************************************************)
StageReturned(fn) == stPc = "ret" /\ stage.fn = fn

\* C7: map_article_to_bullets on a body with no paragraph of more than 60
\* characters (a missing or empty body included) returns the empty list and
\* issues no completion call.
C7_NoParagraphNoCall ==
    ( /\ StageReturned("map")
      /\ \/ stage.body.null
         \/ \A i \in 1..Len(stage.body.paras) : stage.body.paras[i].len <= 60 )
    => (stRet = Ok(<<>>) /\ stCalls = <<>>)

C7_Witness ==
    /\ StageReturned("map")
    /\ ~stage.body.null
    /\ Len(stage.body.paras) = 2
    /\ \A i \in 1..2 : stage.body.paras[i].len = 60
    /\ stRet = Ok(<<>>)
    /\ stCalls = <<>>

\* the message the specification gives for an empty bullet list (" -> "
\* stands for the arrow U+2192 between the two dates)
NoNewsMessage(ticker, start, end) ==
    <<"No finance-relevant news selected for ", ticker, " in [", start, " -> ", end, ")">>

\* C8 (as claimed): final_summary called with no consolidated bullet issues
\* no completion call and returns exactly the "No finance-relevant news
\* selected for {ticker} in [{start} -> {end})" message.
C8_EmptyBulletsDefaultMessage ==
    (StageReturned("final") /\ stage.bullets = <<>>) =>
        /\ stCalls = <<>>
        /\ stRet = Ok(NoNewsMessage(stage.ticker, PeriodStart, PeriodEnd))

\* C9: reduce_articles_to_bullets issues no completion call and returns the
\* empty list when every per-article list is empty (or there is none), and
\* issues exactly one completion call otherwise.
C9_ReduceOneCallOrNone ==
    StageReturned("reduce") =>
        IF \A i \in 1..Len(stage.per) : stage.per[i] = <<>>
        THEN stCalls = <<>> /\ stRet = Ok(<<>>)
        ELSE Len(stCalls) = 1

C9_Witness ==
    /\ StageReturned("reduce")
    /\ Len(stage.per) = 2
    /\ stage.per[1] = <<>>
    /\ Len(stage.per[2]) = 2
    /\ Len(stCalls) = 1
    /\ stRet.kind = "ok"

SortedSeq(S) ==
    [k \in 1..Cardinality(S) |-> CHOOSE x \in S : Cardinality({y \in S : y <= x}) = k]

\* the normalized key of the claim, as the words of the lowercased bullet:
\* two bullets have the same key (lowercased, runs of non-word characters
\* collapsed to one space, trimmed) exactly when they have the same words
KeyWords(b) ==
    LET low == [i \in 1..Len(b) |-> LowerChar(b[i])]
        isW(i) == low[i] \in WordChars
        starts == {i \in 1..Len(b) : isW(i) /\ (i = 1 \/ ~isW(i - 1))}
        endOf(i) == MinOf({j \in i..Len(b) : j = Len(b) \/ ~isW(j + 1)})
        st == SortedSeq(starts)
    IN  [k \in 1..Len(st) |-> SubSeq(low, st[k], endOf(st[k]))]

\* the bullets a returned stage read from the backend, in the order read
BulletsRead ==
    IF stage.fn = "map"
    THEN ConcatAll([c \in 1..Len(stCalls) |-> MapBullets(stCalls[c].out.text)], 1)
    ELSE ConcatAll([c \in 1..Len(stCalls) |-> BulletLines(stCalls[c].out.text)], 1)

\* C10: the list Map returns has at most 12 entries and the list Reduce
\* returns at most 18; no two entries have the same normalized key; every
\* entry is a bullet read from the backend, and the entries are in the order
\* in which their keys first occur among the bullets read.
C10_BulletListsCappedUnique ==
    (stPc = "ret" /\ stage.fn \in {"map", "reduce"} /\ stRet.kind = "ok") =>
        LET R == stRet.val
            src == BulletsRead
            keyR == [i \in 1..Len(R) |-> KeyWords(R[i])] \o <<>>
            keyS == [p \in 1..Len(src) |-> KeyWords(src[p])] \o <<>>
            first(k) == CHOOSE p \in 1..Len(src) :
                            keyS[p] = k /\ \A q \in 1..(p - 1) : keyS[q] # k
            firstR == [i \in 1..Len(R) |-> first(keyR[i])] \o <<>>
        IN  /\ Len(R) <= (IF stage.fn = "map" THEN 12 ELSE 18)
            /\ \A i, j \in 1..Len(R) : i < j => keyR[i] # keyR[j]
            /\ \A i \in 1..Len(R) : \E p \in 1..Len(src) : src[p] = R[i]
            /\ \A i \in 1..(Len(R) - 1) : firstR[i] < firstR[i + 1]

C10_Witness ==
    /\ StageReturned("map")
    /\ stRet.kind = "ok"
    /\ Len(stCalls) = 2
    /\ Len(stRet.val) = 12
    /\ Len(BulletsRead) > 12
    /\ \E p, q \in 1..Len(BulletsRead) :
          p < q /\ KeyWords(BulletsRead[p]) = KeyWords(BulletsRead[q])

(***************************************************************************)
(* Properties of the selector                                              *)
(***************************************************************************)
SelReturned(fn, r) == sel.fn = fn /\ selPc[r] = "ret"

\* C11: for every integer body character count n the body-length score is 0
\* for n <= 500, strictly greater than the score of n - 1 for n in
\* 501..2500 (strictly increasing on (500, 2500]), between 0.8 and the peak
\* 1.0 for 2500 <= n <= 6000, and exactly 0.8 for n >= 6000.
C11_BodyLengthCurve ==
    \A r \in Runs : SelReturned("body", r) /\ sel.n.st = "val" =>
        LET n == sel.n.n
            score == selRet[r].val
        IN  /\ selRet[r].kind = "ok"
            /\ n <= 500 => score = 0
            /\ (500 < n /\ n <= 2500) => score > ScoreBodyLength(IntVal(n - 1))
            /\ (2500 <= n /\ n <= 6000) => 5 * score >= 4 * BodyUnit /\ score <= BodyUnit
            /\ n >= 6000 => 5 * score = 4 * BodyUnit

C11_Witness ==
    /\ SelReturned("body", 1)
    /\ sel.n = IntVal(2501)
    /\ selRet[1].val > (4 * BodyUnit) \div 5
    /\ selRet[1].val < BodyUnit

\* C12: calculate_article_score returns a value in [0, 1] for every
\* article under both weight policies (60/30/10 of select_finance_yahoo.py
\* and 30/70 of selection.py), and the second call on the same article
\* returns what the first returned.
C12_ScoreInUnitInterval ==
    \A r \in Runs : SelReturned("score", r) =>
        /\ selRet[r].kind = "ok"
        /\ 0 <= selRet[r].val
        /\ selRet[r].val <= 1000000
        /\ selPc[2] = "ret" => selRet[2] = selRet[1]

C12_Witness ==
    /\ SelReturned("score", 2)
    /\ sel.impl = "pkg"
    /\ sel.article.title = RichText
    /\ sel.article.description = RichText
    /\ sel.article.summary = RichText
    /\ sel.article.full_body_chars = IntVal(PeakChars)
    /\ selRet[2].val = 1000000

\* the article with every absent or null field set to "" / 0
Defaulted(article) ==
    [title |-> IF article.title.st = "val" THEN article.title ELSE EmptyText,
     description |-> IF article.description.st = "val" THEN article.description ELSE EmptyText,
     summary |-> IF article.summary.st = "val" THEN article.summary ELSE EmptyText,
     full_body_chars |-> IF article.full_body_chars.st = "val" THEN article.full_body_chars
                         ELSE IntVal(0)]

\* C20: for an article whose title, description, summary or body character
\* count is absent or null, calculate_article_score raises nothing and
\* returns the score of the same article with that field set to the empty
\* string or zero.
C20_MissingFieldsAsEmpty ==
    \A r \in Runs : SelReturned("score", r) =>
        /\ selRet[r].kind = "ok"
        /\ selRet[r] = CalculateArticleScore(sel.impl, Defaulted(sel.article))

C20_Witness ==
    /\ SelReturned("score", 1)
    /\ sel.impl = "core"
    /\ sel.article.summary = NoneText
    /\ sel.article.title = AbsentText
    /\ sel.article.full_body_chars = NoneInt
    /\ selRet[1] = ScoreOk(0)

\* the identity of a record: its lowercased title and its source
TitleSourceKey(row) ==
    <<IF row.title.st = "val"
      THEN [i \in 1..Len(row.title.words) |-> LowerWord(row.title.words[i])] \o <<>>
      ELSE <<>>,
      row.source>>

RowsOf(list) == {list[i].row : i \in 1..Len(list)}
Orderings(s) ==
    {[i \in 1..Len(s) |-> s[f[i]]] \o <<>> :
        f \in {g \in [1..Len(s) -> 1..Len(s)] :
                  \A a, b \in 1..Len(s) : a # b => g[a] # g[b]}}

\* select_articles has de-duplicated the rows of the query
Deduplicated(r) == sel.fn = "select" /\ selPc[r] # "call" /\ sel.rows # <<>>

\* C13: de-duplication keeps, for every key lowercase(title) + "||" + source
\* of the input, exactly one record, whose publish time no record of that
\* key exceeds; so every record with a unique key is kept; and the records
\* kept are the same for every ordering of the input.
C13_DedupLatestAnyOrder ==
    \A r \in Runs : Deduplicated(r) =>
        LET kept == RowsOf(articles[r])
            input == {sel.rows[i] : i \in 1..Len(sel.rows)}
        IN  /\ kept \subseteq input
            /\ Cardinality(kept) = Len(articles[r])
            /\ \A row \in input :
                  Cardinality({k \in kept : TitleSourceKey(k) = TitleSourceKey(row)}) = 1
            /\ \A k \in kept : \A row \in input :
                  TitleSourceKey(k) = TitleSourceKey(row) => row.published_utc <= k.published_utc
            /\ \A o \in Orderings(sel.rows) :
                  {Dedup(o)[i] : i \in 1..Len(Dedup(o))} = kept

\* C14: apply_mmr_diversity(input, N) with N >= |input| returns the input
\* list unchanged: the same articles in the same order.
C14_AllReturnedUnchanged ==
    \A r \in Runs : SelReturned("mmr", r) /\ sel.n >= Len(sel.arts) =>
        selRet[r] = SelOk(sel.arts)

C14_Witness ==
    /\ SelReturned("mmr", 1)
    /\ Len(sel.arts) = 2
    /\ sel.n = 2
    /\ sel.arts[1].score < sel.arts[2].score
    /\ selRet[1] = SelOk(sel.arts)

NoRepeat(s) == \A i, j \in 1..Len(s) : i # j => s[i] # s[j]

\* C15: apply_mmr_diversity(input, N) with N < |input| returns exactly
\* min(N, |input|) articles and selects no input position twice; in the
\* selection loop the selected and the remaining positions are disjoint
\* and together are all positions of the input.
C15_SelectsExactlyN ==
    \A r \in Runs : sel.fn = "mmr" /\ sel.n < Len(sel.arts) =>
        /\ selPc[r] = "loop" =>
              /\ NoRepeat(selected_idx[r])
              /\ {selected_idx[r][k] : k \in 1..Len(selected_idx[r])} \cap remaining_idx[r] = {}
              /\ {selected_idx[r][k] : k \in 1..Len(selected_idx[r])} \cup remaining_idx[r]
                    = 1..Len(sel.arts)
        /\ selPc[r] = "ret" =>
              /\ selRet[r].kind = "ok"
              /\ Len(selRet[r].val) = MinNum(sel.n, Len(sel.arts))
              /\ NoRepeat(selected_idx[r])

\* C16: select_articles returns at most maxArticles records, for every
\* maxArticles >= 0 and with diversity on or off, and the records returned
\* have pairwise-distinct (lowercase title, source) keys.
C16_AtMostMaxArticles ==
    \A r \in Runs : SelReturned("select", r) /\ sel.n >= 0 /\ selRet[r].kind = "ok" =>
        /\ Len(selRet[r].val) <= sel.n
        /\ \A i, j \in 1..Len(selRet[r].val) :
              i # j => TitleSourceKey(selRet[r].val[i]) # TitleSourceKey(selRet[r].val[j])

IsPrefix(s, t) == Len(s) <= Len(t) /\ s = SubSeq(t, 1, Len(s))

C18_MapFailureDoesNotAbort ==
    ~(run.pc = "aborted" /\ run.err.stage = "map")

\* C19: final_summary returns the backend's answer with only the leading
\* and trailing whitespace removed, and never cuts it, whatever its length.
C19_FinalSummaryNeverCut ==
    StageReturned("final") /\ stRet.kind = "ok" =>
        stRet.val = StripChars(stCalls[1].out.text, WhiteSpace)

(***************************************************************************)
(* Further properties of the completion client                             *)
(***************************************************************************)
\* the configured provider is unknown, or its SDK / API key is missing
ConfigFault ==
    \/ cfg.provider \notin {"mistral", "openai"}
    \/ cfg.provider = "mistral" /\ ~cfg.mistralOK
    \/ cfg.provider = "openai" /\ ~cfg.openaiOK

\* the errors of complete() that report the configuration
ConfigErrors == {RaiseOwn("ValueError_unknown_provider")}

\* C21: with an unknown provider, or with the credentials of the configured
\* provider missing, complete() invokes no backend (another provider
\* included) and ends with a configuration error, never with a returned
\* text and never with an "all backends failed" error.
C21_ConfigFaultFailsFast ==
    ConfigFault =>
        /\ calls = <<>>
        /\ pc = "done" => result \in ConfigErrors

\* the calls of _complete_mistral that failed with a capacity error, in the
\* order made
TransientCalls ==
    SortedSeq({i \in 1..Len(calls) : calls[i].backend = "mistral" /\ IsTransientOut(calls[i].out)})

\* how many calls the retry loop of call i made before it: the calls on one
\* model are one run of _complete_mistral
AttemptOf(i) ==
    Cardinality({j \in 1..(i - 1) : calls[j].backend = calls[i].backend
                                     /\ calls[j].model = calls[i].model})

\* C22: the client sleeps once after every call of the retry loop that
\* failed with a capacity error, and at no other time (not after a text, an
\* empty response or any other error); the sleep after the failure of
\* attempt a (counted from 0) lasts base * 2^a, that is 1, 2, 4, 8 with base
\* 1, so each delay within one model's retries is twice the one before.
C22_BackoffDoubles ==
    LET T == TransientCalls
    IN  /\ Len(sleeps) = Len(T)
        /\ \A k \in 1..Len(T) :
              /\ AttemptOf(T[k]) \in 0..(MaxRetries - 1)
              /\ sleeps[k] = BaseSleep * (2 ^ AttemptOf(T[k]))
              /\ AttemptOf(T[k]) > 0 => (k > 1 /\ sleeps[k] = 2 * sleeps[k - 1])

C22_Witness ==
    /\ pc = "done"
    /\ sleeps = <<1, 2, 4, 8, 1, 2>>
    /\ Len(calls) = 7
    /\ calls[7].out.val = "sdk_other"
    /\ result = Raise(calls[7].out)

(***************************************************************************)
(* Further properties of the selector                                      *)
(***************************************************************************)
\* C23: in apply_mmr_diversity with N < |input| the first article selected
\* has the highest score, and every later one has, among the articles not
\* yet selected, the greatest lambda * score - (1 - lambda) * (greatest
\* similarity to an article selected before it); of the candidates with
\* that greatest value the one earliest in the input list is selected.
C23_MmrGreedyChoice ==
    \A r \in Runs : selPc[r] \in {"loop", "ret"} /\ selected_idx[r] # <<>> =>
        LET arts == articles[r]
            S == selected_idx[r]
            open(k) == (1..Len(arts)) \ {S[j] : j \in 1..(k - 1)}
            value(c, k) ==
                IF k = 1 THEN arts[c].score
                ELSE sel.lam * arts[c].score
                     - (LambdaOne - sel.lam)
                       * MaxOf({Similarity(arts[c].row, arts[S[j]].row, sel.mid) :
                                   j \in 1..(k - 1)})
        IN  \A k \in 1..Len(S) :
               /\ S[k] \in open(k)
               /\ \A c \in open(k) :
                     /\ value(c, k) <= value(S[k], k)
                     /\ value(c, k) = value(S[k], k) => S[k] <= c

C23_Witness ==
    /\ SelReturned("mmr", 1)
    /\ Len(sel.arts) = 3
    /\ sel.n = 2
    /\ sel.lam = DefaultLambda
    /\ sel.arts[2].score > sel.arts[3].score
    /\ sel.arts[1].row.title = sel.arts[2].row.title
    /\ selected_idx[1] = <<1, 3>>

(***************************************************************************)
(* Further properties of the stage functions                               *)
(***************************************************************************)
RECURSIVE SumOf(_, _)
SumOf(s, i) == IF i > Len(s) THEN 0 ELSE s[i] + SumOf(s, i + 1)

\* len("\n\n".join(chunk)) for a chunk given by the lengths of its paragraphs
JoinedLen(chunk) == SumOf(chunk, 1) + 2 * (Len(chunk) - 1)

\* C24: for every list of paragraphs of more than 60 characters, the chunks
\* of group_paragraphs are runs of whole consecutive paragraphs (the chunks
\* put end to end are the input list, none is empty), and every chunk,
\* joined with blank lines, has at most max_chars characters.
C24_ChunksWithinBudget ==
    StageReturned("group") =>
        LET chunks == stRet.val
        IN  /\ ConcatAll(chunks, 1) = stage.paras
            /\ \A c \in 1..Len(chunks) :
                  /\ chunks[c] # <<>>
                  /\ JoinedLen(chunks[c]) <= stage.max_chars

(***************************************************************************)
(* Further properties of the run                                           *)
(***************************************************************************)
StageRank(st) == CASE st = "map" -> 1 [] st = "reduce" -> 2 [] OTHER -> 3

\* C25: in one run the completion calls are issued stage after stage: no
\* Map call follows a Reduce or a Final call, no Reduce call follows a
\* Final call, and there is at most one Reduce and one Final call; each
\* call has returned before the next is issued.
C25_StagesInSequence ==
    run.pc # "idle" =>
        /\ \A p, q \in 1..Len(run.log) : p < q => StageRank(run.log[p]) <= StageRank(run.log[q])
        /\ Cardinality({p \in 1..Len(run.log) : run.log[p] = "reduce"}) <= 1
        /\ Cardinality({p \in 1..Len(run.log) : run.log[p] = "final"}) <= 1

C25_Witness ==
    /\ run.pc = "final"
    /\ Len(run.rows) = 2
    /\ run.log = <<"map", "map", "map", "reduce">>

\* C26: map_article_to_bullets calls complete() once for each chunk, in the
\* order of the chunks, and none of the Map, Reduce and Final stages calls
\* complete() again after a call that failed: a failed call is the stage's
\* last call and the stage fails with it.  Reduce and Final issue at most
\* one call.
C26_OneCallPerChunkNoRetry ==
    (stPc = "ret" /\ stage.fn \in {"map", "reduce", "final"}) =>
        /\ \A c \in 1..Len(stCalls) :
              stCalls[c].out.kind = "raise" => (c = Len(stCalls) /\ stRet = Raised)
        /\ stage.fn \in {"reduce", "final"} => Len(stCalls) <= 1
        /\ stage.fn = "map" =>
              LET chunks == GroupParagraphs(SplitParagraphs(stage.body), ChunkChars)
              IN  /\ Len(stCalls) <= Len(chunks)
                  /\ \A c \in 1..Len(stCalls) :
                        stCalls[c].prompt = [tmpl |-> "map", ticker |-> stage.ticker,
                                             arg |-> chunks[c]]
                  /\ stRet.kind = "ok" => Len(stCalls) = Len(chunks)

C26_Witness ==
    /\ StageReturned("map")
    /\ Len(stage.body.paras) = 2
    /\ Len(stCalls) = 2
    /\ stCalls[1].prompt.arg # stCalls[2].prompt.arg
    /\ stCalls[1].out.kind = "text"
    /\ stCalls[2].out.kind = "raise"
    /\ stRet = Raised

\* the bullets Map keeps from a backend text, before its cap
MapKeeps(text) == DedupFrom(MapBullets(text), 1, {}, FALSE)

\* C27: from one backend text Reduce keeps (before its cap of 18) the very
\* bullets Map keeps from that text (before its cap of 12), in the same
\* order, also for lines of 3 characters or fewer and for lines whose
\* normalized key is empty.
C27_ReduceParsesLikeMap ==
    (StageReturned("reduce") /\ stRet.kind = "ok" /\ Len(stCalls) = 1) =>
        stRet.val = TakeFirst(MapKeeps(stCalls[1].out.text), ReduceCap)

\* C28: with the provider openai, OpenAI is called first (when it is
\* available) and at most once; Mistral is called only after OpenAI gave no
\* text, and only its primary model, at most MaxRetries times; when neither
\* gave a text the request ends with the one "OpenAI failed" error.
C28_OpenAIFirstThenPrimaryOnly ==
    cfg.provider = "openai" =>
        /\ (cfg.openaiOK /\ pc \notin {"start", "openai"}) =>
              (calls # <<>> /\ calls[1].backend = "openai")
        /\ Cardinality(OpenAICalls) <= 1
        /\ \A i \in 1..Len(calls) : calls[i].backend = "mistral" =>
              /\ calls[i].model = 0
              /\ \/ ~cfg.openaiOK /\ OpenAICalls = {}
                 \/ \E j \in OpenAICalls : j < i /\ NoTextOut(calls[j].out)
        /\ Cardinality(CallsOf("mistral", 0)) <= MaxRetries
        /\ ( /\ pc = "done"
             /\ ~cfg.openaiOK \/ \E j \in OpenAICalls : NoTextOut(calls[j].out)
             /\ ExhaustedBefore(0, Len(calls) + 1) )
           => result = RaiseOwn("RuntimeError_openai_failed")

\* the backend and model tried after Mistral model s / after OpenAI gave no
\* text, as the claim has it: the next fallback model, then the alternate
\* provider
TriedAfter(c) ==
    IF c.backend = "mistral"
    THEN IF cfg.provider = "mistral" /\ c.model < cfg.nFallbacks
         THEN {[backend |-> "mistral", model |-> c.model + 1]}
         ELSE IF cfg.provider = "mistral" THEN {[backend |-> "openai", model |-> 0]}
         ELSE {}
    ELSE IF cfg.provider = "openai" THEN {[backend |-> "mistral", model |-> 0]} ELSE {}

\* C29: complete() never returns an empty or a null text; a backend call
\* that succeeds with an empty response is not the result and is not
\* repeated: when a further model or provider is left and available the
\* request goes on and calls it, and when none is left the request ends
\* with the terminal error.
C29_EmptyResponseMovesOn ==
    /\ (pc = "done" /\ result.kind = "return") =>
          /\ result.val # ""
          /\ result.id \in 1..Len(calls)
          /\ calls[result.id].out.kind = "text"
    /\ \A i \in 1..Len(calls) : (NoTextOut(calls[i].out) /\ pc = "done") =>
          LET nxt == {n \in TriedAfter(calls[i]) :
                         IF n.backend = "mistral" THEN cfg.mistralOK ELSE cfg.openaiOK}
          IN  /\ nxt # {} =>
                    /\ i < Len(calls)
                    /\ [backend |-> calls[i + 1].backend, model |-> calls[i + 1].model] \in nxt
              /\ (i = Len(calls)) => result.kind = "raise" /\ result.id = 0

\* the most backend calls of one request: MaxRetries for the primary model
\* and for each of the fallback models, and one for the alternate provider
CallBound == MaxRetries * (1 + cfg.nFallbacks) + 1

\* C30: every request ends, with a returned text or with an error, and
\* issues at most K * (1 + F) + 1 backend calls, K = 4 the attempts per
\* model and F the number of fallback models, whatever the backends answer.
C30_TerminatesWithinBound ==
    /\ [](Len(calls) <= CallBound)
    /\ [](pc = "done" => result.kind \in {"return", "raise"})
    /\ <>(pc = "done")

C30_Witness ==
    /\ pc = "done"
    /\ cfg.nFallbacks = MaxFallbacks
    /\ Len(calls) = CallBound
    /\ \A i \in 1..Len(calls) : IsTransientOut(calls[i].out)

=============================================================================
